---------------------------- MODULE Spec2Model ----------------------------
(***************************************************************************)
(* Model of the search engine of symmetrical-train: the tokenizers         *)
(* (app/services/search/tokenizers.py), the IndexingService                *)
(* (app/services/search/indexing.py) and the SearchService                 *)
(* (app/services/search/search.py) over the three tables                   *)
(* news_classifications, index_tokens and index_entries.                   *)
(*                                                                         *)
(* A text is a sequence of characters, a character a string.  The          *)
(* character "e'" stands for an accented letter (e with an acute accent),  *)
(* which unidecode transliterates to "e".                                  *)
(*                                                                         *)
(* A row of index_tokens is identified by its name: name is unique, so the *)
(* surrogate key id is in bijection with it, and an index entry holds the  *)
(* name of the token row it references.                                    *)
(***************************************************************************)
EXTENDS Naturals, Integers, Sequences, FiniteSets, Bags, TLC

(***************************************************************************)
(* Bounds of the model.                                                    *)
(***************************************************************************)
\* longest review of the one-document specification SpecLong
MaxLongLen == 5
\* longest review of the two-document specifications
MaxReviewLen == 3
\* longest review of the specification of the searches
MaxSearchReviewLen == 4
\* longest search query
MaxQueryLen == 3
\* largest limit a search is called with
MaxLimit == 2
\* longest word of the texts of the tokenizer specification
MaxWordLen == 5

\* the characters reviews and queries are made of
Alphabet == {"a", "B", "e'", "!"}
\* the characters of the reviews of the two-document specifications
ShortAlphabet == {"a", "B"}
\* the characters of the search queries
QueryAlphabet == {"a", "!"}
\* the document ids of the two-document specifications
DocIds == {1, 2}

RECURSIVE SeqsUpTo(_, _)
SeqsUpTo(S, n) ==
    IF n = 0 THEN {<<>>}
    ELSE LET shorter == SeqsUpTo(S, n - 1)
         IN  shorter \cup {Append(s, c) : s \in {t \in shorter : Len(t) = n - 1}, c \in S}

LongTexts == SeqsUpTo(Alphabet, MaxLongLen)
Reviews == SeqsUpTo(ShortAlphabet, MaxReviewLen)
SearchReviews == SeqsUpTo(ShortAlphabet, MaxSearchReviewLen)
\* the reviews of the second document of the search specification
PlainReviews == SeqsUpTo({"a"}, MaxSearchReviewLen)
Queries == SeqsUpTo(QueryAlphabet, MaxQueryLen)
\* the texts of the tokenizer specification: two words, either may be empty,
\* with a punctuation mark between them
TokenizerWords == SeqsUpTo(ShortAlphabet, MaxWordLen)
TokenizerTexts == {w1 \o <<"!">> \o w2 : w1 \in TokenizerWords, w2 \in TokenizerWords}

(***************************************************************************)
(* Tokenizers (tokenizers.py).                                             *)
(***************************************************************************)
\* unidecode(text), per character: ASCII is kept, an accented letter
\* becomes its base letter
Unidecode(c) == IF c = "e'" THEN "e" ELSE c

\* str.lower(), per character
Lower(c) == IF c = "A" THEN "a" ELSE IF c = "B" THEN "b" ELSE IF c = "E" THEN "e" ELSE c

\* the class [a-z0-9] of the characters of the model
AlnumChars == {"a", "b", "e"}

\* re.sub(r"[^a-z0-9]", " ", text), per character
Blank(c) == IF c \in AlnumChars THEN c ELSE " "

\* re.sub(r"\s+", " ", text): a run of spaces becomes one space
RECURSIVE Collapse(_)
Collapse(s) ==
    IF Len(s) <= 1 THEN s
    ELSE IF s[1] = " " /\ s[2] = " " THEN Collapse(Tail(s))
    ELSE <<s[1]>> \o Collapse(Tail(s))

\* str.strip(), after the collapse at most one space is left at either end
Strip(s) ==
    LET a == IF Len(s) > 0 /\ s[1] = " " THEN Tail(s) ELSE s
    IN  IF Len(a) > 0 /\ a[Len(a)] = " " THEN SubSeq(a, 1, Len(a) - 1) ELSE a

\* Tokenizer._normalize
Normalize(text) ==
    Strip(Collapse([i \in 1..Len(text) |-> Blank(Lower(Unidecode(text[i])))]))

\* str.split(" "): the pieces between single spaces, empty pieces included
RECURSIVE Split(_, _)
Split(s, cur) ==
    IF s = <<>> THEN <<cur>>
    ELSE IF s[1] = " " THEN <<cur>> \o Split(Tail(s), <<>>)
    ELSE Split(Tail(s), Append(cur, s[1]))

MinWordLen == 2

\* Tokenizer._extract_words, as the set of the words of the list (every
\* tokenizer puts them into a set)
ExtractWords(text) ==
    LET pieces == Split(Normalize(text), <<>>)
    IN  {pieces[i] : i \in {j \in 1..Len(pieces) : Len(pieces[j]) >= MinWordLen}}

WordWeight == 20
PrefixWeight == 5
NGramWeight == 1
MinPrefixLen == 4
NGramLen == 3

Token(value, weight) == [value |-> value, weight |-> weight]

\* WordTokenizer.tokenize
WordTokenize(text) == {Token(w, WordWeight) : w \in ExtractWords(text)}

\* range(min_prefix_len, len(word)) in place of range(min_prefix_len, len(word) + 1)
PrefixesBelowWord(word) ==
    IF Len(word) >= MinPrefixLen
    THEN {SubSeq(word, 1, i) : i \in MinPrefixLen..(Len(word) - 1)}
    ELSE {}

\* the prefixes word[:i] for i in range(min_prefix_len, len(word) + 1)
PrefixesOf(word) ==
    IF Len(word) >= MinPrefixLen
    THEN {SubSeq(word, 1, i) : i \in MinPrefixLen..Len(word)}
    ELSE {}

\* PrefixTokenizer.tokenize
PrefixTokenize(text) ==
    {Token(p, PrefixWeight) : p \in UNION {PrefixesOf(w) : w \in ExtractWords(text)}}

\* the n-grams word[i : i + ngram_len] for i in range(len(word) - ngram_len + 1)
NGramsOf(word) ==
    IF Len(word) >= NGramLen
    THEN {SubSeq(word, i + 1, i + NGramLen) : i \in 0..(Len(word) - NGramLen)}
    ELSE {}

\* NGramTokenizer.tokenize
NGramTokenize(text) ==
    {Token(g, NGramWeight) : g \in UNION {NGramsOf(w) : w \in ExtractWords(text)}}

\* all_tokens of index_document and _tokenize_query: the tokens of the three
\* default tokenizers.  Each tokenizer returns a value once and the three
\* weights differ, so the list has no two equal Token objects and is a set.
AllTokens(text) == WordTokenize(text) \cup PrefixTokenize(text) \cup NGramTokenize(text)

\* token_values = set(t.value for t in all_tokens)
TokenValues(all_tokens) == {t.value : t \in all_tokens}

(***************************************************************************)
(* State.                                                                  *)
(***************************************************************************)
VARIABLES
    docs,       \* news_classifications: id -> [review, token_count]
    tokens,     \* index_tokens: the names of the rows
    entries,    \* index_entries: a bag of [token, document_id, document_type, field_id, weight]
    last,       \* the operation that completed last: [op, doc, again], again
                \* when the operation before it was the same one
    srch,       \* the search whose result is being returned: [query, limit,
                \* result, calls], calls the number of store queries it made
    call        \* the index_document calls in flight, per caller: the position
                \* pc, the document and the locals of the call

vars == <<docs, tokens, entries, last, srch, call>>

\* the callers that run index_document concurrently
Callers == {1, 2}

NoCall ==
    [pc |-> "idle", document |-> 0, existing_token_map |-> {}, new_token_values |-> {},
     token_count |-> 0]

\* no search result is being returned and no index_document call is in flight
Quiet == last.op # "search" /\ \A p \in Callers : call[p].pc \in {"idle", "done", "failed"}

NoSearch == [query |-> << >>, limit |-> 0, result |-> << >>, calls |-> 0]

Done(op, d) == [op |-> op, doc |-> d, again |-> last.op = op /\ last.doc = d]

Seeded == [op |-> "seed", doc |-> 0, again |-> FALSE]

(***************************************************************************)
(* IndexingService (indexing.py).                                          *)
(***************************************************************************)
FieldWeight == 10

\* int(math.sqrt(n)) in place of math.ceil: the greatest k with k * k <= n
FloorSqrt(n) == CHOOSE k \in 0..n : k * k <= n /\ (k + 1) * (k + 1) > n

\* math.ceil(math.sqrt(n)): the least k with k * k >= n
CeilSqrt(n) == CHOOSE k \in 0..n : k * k >= n /\ \A j \in 0..(k - 1) : j * j < n

\* final_weight = field_weight * token.weight * math.ceil(math.sqrt(len(token.value)))
FinalWeight(token) == FieldWeight * token.weight * CeilSqrt(Len(token.value))

\* IndexEntry(token=token_obj, document_id=document.id, ...)
IndexEntry(token, d) ==
    [token |-> token.value, document_id |-> d, document_type |-> "NewsClassification",
     field_id |-> "review", weight |-> FinalWeight(token)]

\* the loop over all_tokens that fills entries_to_create: one entry per
\* Token whose value is in existing_token_map, the others are skipped
RECURSIVE EntriesOf(_, _)
EntriesOf(toks, d) ==
    IF toks = {} THEN EmptyBag
    ELSE LET t == CHOOSE x \in toks : TRUE
         IN  SetToBag({IndexEntry(t, d)}) (+) EntriesOf(toks \ {t}, d)

EntriesToCreate(all_tokens, d, token_map) ==
    EntriesOf({t \in all_tokens : t.value \in token_map}, d)

\* len(token_values) in place of len(entries_to_create)
TokenCountDistinct(entries_to_create) ==
    Cardinality({e.token : e \in DOMAIN entries_to_create})

\* document.token_count = len(entries_to_create)
TokenCount(entries_to_create) == BagCardinality(entries_to_create)

\* the delete left out
KeepEntries(E, d) == E

\* IndexEntry.filter(document_id=document_id).delete()
DeleteEntries(E, d) == [e \in {x \in DOMAIN E : x.document_id # d} |-> E[e]]

\* the entries of document d
EntriesFor(E, d) == [e \in {x \in DOMAIN E : x.document_id = d} |-> E[e]]

\* IndexToken.filter(name__in=names), as the names of the rows found
FilterTokens(T, names) == T \cap names

\* new_token_values = [t for t in token_values if t not in existing_token_map]
NewTokenValues(token_values, existing_token_map) == token_values \ existing_token_map

\* IndexToken.bulk_create([IndexToken(name=v) for v in new_token_values]):
\* name is unique, the insert of a name that is there fails as a whole
BulkCreateFails(T, new_token_values) == T \cap new_token_values # {}

BulkCreateTokens(T, new_token_values) == T \cup new_token_values

\* IndexingService.index_document on the tables (T, E, D), its store calls
\* run without another operation in between: the tables it leaves
IndexDocumentOn(T, E, D, d) ==
    LET E1 == DeleteEntries(E, d)
        all_tokens == AllTokens(D[d].review)
        token_values == TokenValues(all_tokens)
        existing == FilterTokens(T, token_values)
        new_token_values == NewTokenValues(token_values, existing)
        T1 == BulkCreateTokens(T, new_token_values)
        token_map == existing \cup FilterTokens(T1, new_token_values)
        entries_to_create == EntriesToCreate(all_tokens, d, token_map)
    IN  [tokens |-> T1,
         entries |-> E1 (+) entries_to_create,
         docs |-> [D EXCEPT ![d].token_count = TokenCount(entries_to_create)]]

\* await indexing_service.index_document(document), document a row of the store
IndexDocument(d) ==
    /\ Quiet
    /\ d \in DOMAIN docs
    /\ LET r == IndexDocumentOn(tokens, entries, docs, d)
       IN  /\ tokens' = r.tokens
           /\ entries' = r.entries
           /\ docs' = r.docs
    /\ last' = Done("index", d)
    /\ UNCHANGED <<srch, call>>

\* IndexEntry.all().delete() in place of the filter on document_id
RemoveEveryEntry(d) ==
    /\ Quiet
    /\ entries' = EmptyBag
    /\ last' = Done("remove", d)
    /\ UNCHANGED <<docs, tokens, srch, call>>

\* IndexingService.remove_document_from_index
RemoveDocumentFromIndex(d) ==
    /\ Quiet
    /\ entries' = DeleteEntries(entries, d)
    /\ last' = Done("remove", d)
    /\ UNCHANGED <<docs, tokens, srch, call>>

\* the loop of reindex_all over NewsClassification.all(), in id order
RECURSIVE IndexEach(_, _, _, _)
IndexEach(T, E, D, ids) ==
    IF ids = {} THEN [tokens |-> T, entries |-> E, docs |-> D]
    ELSE LET d == CHOOSE x \in ids : \A y \in ids : x <= y
             r == IndexDocumentOn(T, E, D, d)
         IN  IndexEach(r.tokens, r.entries, r.docs, ids \ {d})

\* reindex_all without IndexEntry.all().delete()
ReindexAllKeepingEntries ==
    /\ Quiet
    /\ LET r == IndexEach({}, entries, docs, DOMAIN docs)
       IN  /\ tokens' = r.tokens
           /\ entries' = r.entries
           /\ docs' = r.docs
    /\ last' = Done("reindex", 0)
    /\ UNCHANGED <<srch, call>>

\* IndexingService.reindex_all
ReindexAll ==
    /\ Quiet
    /\ LET r == IndexEach({}, EmptyBag, docs, DOMAIN docs)
       IN  /\ tokens' = r.tokens
           /\ entries' = r.entries
           /\ docs' = r.docs
    /\ last' = Done("reindex", 0)
    /\ UNCHANGED <<srch, call>>

\* NewsClassification.all().delete() of the seed script: the store is
\* cleared, the index is not touched
ClearDocuments ==
    /\ Quiet
    /\ docs # << >>
    /\ docs' = << >>
    /\ last' = Done("clear", 0)
    /\ UNCHANGED <<tokens, entries, srch, call>>

(***************************************************************************)
(* index_document, one store call (await) per step, for concurrent calls.  *)
(***************************************************************************)
\* the route calls index_document(news), news a row it read from the store
StartIndex(p, d) ==
    /\ last.op # "search"
    /\ call[p].pc = "idle"
    /\ d \in DOMAIN docs
    /\ call' = [call EXCEPT ![p] = [NoCall EXCEPT !.pc = "delete",
                                                  !.document = [id |-> d, review |-> docs[d].review]]]
    /\ UNCHANGED <<docs, tokens, entries, last, srch>>

\* the call without its first step
StepDeleteSkipped(p) ==
    /\ call[p].pc = "delete"
    /\ call' = [call EXCEPT ![p].pc = "filter"]
    /\ UNCHANGED <<docs, tokens, entries, last, srch>>

\* await self.remove_document_from_index(document.id)
StepDelete(p) ==
    /\ call[p].pc = "delete"
    /\ entries' = DeleteEntries(entries, call[p].document.id)
    /\ call' = [call EXCEPT ![p].pc = "filter"]
    /\ UNCHANGED <<docs, tokens, last, srch>>

\* existing_tokens = await IndexToken.filter(name__in=token_values)
StepFilter(p) ==
    /\ call[p].pc = "filter"
    /\ LET token_values == TokenValues(AllTokens(call[p].document.review))
           existing == FilterTokens(tokens, token_values)
           new_token_values == NewTokenValues(token_values, existing)
       IN  call' = [call EXCEPT ![p].existing_token_map = existing,
                                ![p].new_token_values = new_token_values,
                                ![p].pc = IF new_token_values # {} THEN "create" ELSE "insert"]
    /\ UNCHANGED <<docs, tokens, entries, last, srch>>

\* await IndexToken.bulk_create(...): the IntegrityError of a name that was
\* created since the filter ends the call
StepCreate(p) ==
    /\ call[p].pc = "create"
    /\ IF BulkCreateFails(tokens, call[p].new_token_values)
       THEN /\ call' = [call EXCEPT ![p].pc = "failed"]
            /\ UNCHANGED tokens
       ELSE /\ tokens' = BulkCreateTokens(tokens, call[p].new_token_values)
            /\ call' = [call EXCEPT ![p].pc = "refilter"]
    /\ UNCHANGED <<docs, entries, last, srch>>

\* new_tokens = await IndexToken.filter(name__in=new_token_values)
StepRefilter(p) ==
    /\ call[p].pc = "refilter"
    /\ call' = [call EXCEPT ![p].existing_token_map =
                                @ \cup FilterTokens(tokens, call[p].new_token_values),
                            ![p].pc = "insert"]
    /\ UNCHANGED <<docs, tokens, entries, last, srch>>

\* await IndexEntry.bulk_create(entries_to_create), if there are any
StepInsert(p) ==
    /\ call[p].pc = "insert"
    /\ LET entries_to_create ==
               EntriesToCreate(AllTokens(call[p].document.review), call[p].document.id,
                               call[p].existing_token_map)
       IN  /\ entries' = entries (+) entries_to_create
           /\ call' = [call EXCEPT ![p].token_count = TokenCount(entries_to_create),
                                   ![p].pc = "save"]
    /\ UNCHANGED <<docs, tokens, last, srch>>

\* await document.save(update_fields=["token_count"])
StepSave(p) ==
    /\ call[p].pc = "save"
    /\ docs' = [d \in DOMAIN docs |->
                  IF d = call[p].document.id
                  THEN [docs[d] EXCEPT !.token_count = call[p].token_count]
                  ELSE docs[d]]
    /\ call' = [call EXCEPT ![p].pc = "done"]
    /\ UNCHANGED <<tokens, entries, last, srch>>

\* update_news_classification: the row is read, saved with the new review
\* and handed to index_document
StartUpdate(p, d, text) ==
    /\ last.op # "search"
    /\ call[p].pc = "idle"
    /\ d \in DOMAIN docs
    /\ docs' = [docs EXCEPT ![d].review = text]
    /\ call' = [call EXCEPT ![p] = [NoCall EXCEPT !.pc = "delete",
                                                  !.document = [id |-> d, review |-> text,
                                                                token_count |-> docs[d].token_count]]]
    /\ UNCHANGED <<tokens, entries, last, srch>>

\* an except clause that sets token_count to 0 before the error is raised again
StepFailResetCount(p) ==
    /\ call[p].pc \in {"delete", "filter", "create", "refilter", "insert", "save"}
    /\ docs' = [docs EXCEPT ![call[p].document.id].token_count = 0]
    /\ call' = [call EXCEPT ![p].pc = "failed"]
    /\ UNCHANGED <<tokens, entries, last, srch>>

\* the store call the caller is about to make raises: index_document has no
\* try, the error ends the call and nothing is written
StepFail(p) ==
    /\ call[p].pc \in {"delete", "filter", "create", "refilter", "insert", "save"}
    /\ call' = [call EXCEPT ![p].pc = "failed"]
    /\ UNCHANGED <<docs, tokens, entries, last, srch>>

(***************************************************************************)
(* delete_news_classification, one store call per step, run by caller p.   *)
(***************************************************************************)
\* the row is read and await indexing_service.remove_document_from_index(news.id)
DeleteRemove(p, d) ==
    /\ last.op # "search"
    /\ call[p].pc = "idle"
    /\ d \in DOMAIN docs
    /\ entries' = DeleteEntries(entries, d)
    /\ call' = [call EXCEPT ![p] = [NoCall EXCEPT !.pc = "delete_row",
                                                  !.document = [id |-> d, review |-> docs[d].review]]]
    /\ UNCHANGED <<docs, tokens, last, srch>>

\* await news.delete()
DeleteRow(p) ==
    /\ call[p].pc = "delete_row"
    /\ docs' = [d \in DOMAIN docs \ {call[p].document.id} |-> docs[d]]
    /\ call' = [call EXCEPT ![p].pc = "done"]
    /\ UNCHANGED <<tokens, entries, last, srch>>

(***************************************************************************)
(* reindex_all, one store call per step, run by caller p.                  *)
(***************************************************************************)
\* await IndexToken.all().delete(): index_entries.token references
\* index_tokens, the entries go with their tokens where the store enforces
\* the reference and stay where it does not
ReindexClearTokens(p) ==
    /\ call[p].pc = "idle"
    /\ tokens' = {}
    /\ entries' \in {entries, EmptyBag}
    /\ call' = [call EXCEPT ![p] =
                   [pc |-> "clear_entries", document |-> 0, existing_token_map |-> {},
                    new_token_values |-> {}, token_count |-> 0, todo |-> {}]]
    /\ UNCHANGED <<docs, last, srch>>

\* await IndexEntry.all().delete()
ReindexClearEntries(p) ==
    /\ call[p].pc = "clear_entries"
    /\ entries' = EmptyBag
    /\ call' = [call EXCEPT ![p].pc = "list"]
    /\ UNCHANGED <<docs, tokens, last, srch>>

\* NewsClassification.first() in place of all(): only the row of the least id
ReindexListFirst(p) ==
    /\ call[p].pc = "list"
    /\ call' = [call EXCEPT ![p].todo = {[id |-> d, review |-> docs[d].review]
                                          : d \in {x \in DOMAIN docs : \A y \in DOMAIN docs : x <= y}},
                            ![p].pc = "done"]
    /\ UNCHANGED <<docs, tokens, entries, last, srch>>

\* async for document in NewsClassification.all(): the rows are read
ReindexList(p) ==
    /\ call[p].pc = "list"
    /\ call' = [call EXCEPT ![p].todo = {[id |-> d, review |-> docs[d].review] : d \in DOMAIN docs},
                            ![p].pc = "done"]
    /\ UNCHANGED <<docs, tokens, entries, last, srch>>

\* the loop takes the next row, in id order, and calls index_document on it
ReindexNext(p) ==
    /\ call[p].pc = "done"
    /\ call[p].todo # {}
    /\ LET document == CHOOSE x \in call[p].todo : \A y \in call[p].todo : x.id <= y.id
       IN  call' = [call EXCEPT ![p].pc = "delete",
                                ![p].document = document,
                                ![p].todo = @ \ {document},
                                ![p].existing_token_map = {},
                                ![p].new_token_values = {},
                                ![p].token_count = 0]
    /\ UNCHANGED <<docs, tokens, entries, last, srch>>

(***************************************************************************)
(* SearchService (search.py).                                              *)
(***************************************************************************)
MaxQueryTokens == 300

\* token_values: the distinct values sorted by length, longest first, cut to
\* the first 300; the order among values of one length is the set's, so any
\* such cut is possible
QueryTokenValues(query_tokens) ==
    LET values == TokenValues(query_tokens)
    IN  IF Cardinality(values) <= MaxQueryTokens THEN {values}
        ELSE {c \in SUBSET values :
                /\ Cardinality(c) = MaxQueryTokens
                /\ \A v \in c, w \in values \ c : Len(v) >= Len(w)}

\* IndexEntry.filter(token__name__in=token_values): the entries joined with
\* their token row, the row's name among the values
MatchingEntries(T, E, token_values) ==
    [e \in {x \in DOMAIN E : x.token \in T /\ x.token \in token_values} |-> E[e]]

\* Sum("weight") over a bag of entries
RECURSIVE SumWeight(_)
SumWeight(B) ==
    IF DOMAIN B = {} THEN 0
    ELSE LET e == CHOOSE x \in DOMAIN B : TRUE
         IN  e.weight * B[e] + SumWeight([x \in DOMAIN B \ {e} |-> B[x]])

\* .group_by("document_id").annotate(...).values(...): one row per document
\* with a matching entry.  avg_weight = Avg("weight") is base_score / rows,
\* kept as the number of rows.
Aggregate(T, E, token_values) ==
    LET M == MatchingEntries(T, E, token_values)
    IN  {LET G == EntriesFor(M, d)
         IN  [document_id |-> d,
              base_score |-> SumWeight(G),
              token_diversity |-> Cardinality({e.token : e \in DOMAIN G}),
              rows |-> BagCardinality(G)]
         : d \in {e.document_id : e \in DOMAIN M}}

\* doc_token_count: doc_token_map.get(document_id, 1), and 1 for a stored 0
DocTokenCount(D, d) ==
    IF d \notin DOMAIN D THEN 1
    ELSE IF D[d].token_count = 0 THEN 1
    ELSE D[d].token_count

\* score = base_score * (1 + token_diversity) * (1 + avg_weight) / doc_token_count,
\* as the fraction num / den, 1 + avg_weight being (rows + base_score) / rows
Score(r, doc_token_count) ==
    [num |-> r.base_score * (1 + r.token_diversity) * (r.rows + r.base_score),
     den |-> r.rows * doc_token_count]

\* a.score >= b.score
ScoreGE(a, b) == a.num * b.den >= b.num * a.den

\* scored_results: {"document_id", "score"} per row
ScoredResults(T, E, D, token_values) ==
    {[document_id |-> r.document_id, score |-> Score(r, DocTokenCount(D, r.document_id))]
     : r \in Aggregate(T, E, token_values)}

\* the sort without reverse=True
SortedAscending(scored) ==
    {s \in [1..Cardinality(scored) -> scored] :
        /\ \A i, j \in DOMAIN s : i < j => s[i] # s[j] /\ ScoreGE(s[j].score, s[i].score)}

\* sorted(scored_results, key=score, reverse=True): the sort is stable and
\* the store returns the rows in no stated order, so documents of one score
\* come in any order
SortedResults(scored) ==
    {s \in [1..Cardinality(scored) -> scored] :
        /\ \A i, j \in DOMAIN s : i < j => s[i] # s[j] /\ ScoreGE(s[i].score, s[j].score)}

\* sorted_results[:limit], limit >= 0
Truncate(s, limit) == SubSeq(s, 1, IF limit < Len(s) THEN limit ELSE Len(s))

\* list(documents) in place of the list built from doc_ids: the rows found,
\* in the order of their ids
RECURSIVE FetchDocumentsInIdOrder(_, _)
FetchDocumentsInIdOrder(D, doc_ids) ==
    LET found == {doc_ids[i] : i \in DOMAIN doc_ids} \cap DOMAIN D
    IN  IF found = {} THEN << >>
        ELSE LET least == CHOOSE x \in found : \A y \in found : x <= y
                 rest == [i \in 1..(Len(doc_ids) - 1) |->
                            LET k == CHOOSE j \in DOMAIN doc_ids : doc_ids[j] = least
                            IN  IF i < k THEN doc_ids[i] ELSE doc_ids[i + 1]]
             IN  <<least>> \o FetchDocumentsInIdOrder(D, rest)

\* [doc_map[doc_id] for doc_id in doc_ids if doc_id in doc_map]
RECURSIVE FetchDocuments(_, _)
FetchDocuments(D, doc_ids) ==
    IF doc_ids = << >> THEN << >>
    ELSE (IF Head(doc_ids) \in DOMAIN D THEN <<Head(doc_ids)>> ELSE << >>)
         \o FetchDocuments(D, Tail(doc_ids))

\* search without the return for a query of no tokens
SearchOutcomesNoEarlyReturn(T, E, D, query, limit) ==
    LET query_tokens == AllTokens(query)
    IN  UNION {
          {LET top == Truncate(s, limit)
               doc_ids == [i \in DOMAIN top |-> top[i].document_id]
           IN  IF doc_ids = << >> THEN [result |-> << >>, calls |-> 2]
               ELSE [result |-> FetchDocuments(D, doc_ids), calls |-> 3]
           : s \in SortedResults(ScoredResults(T, E, D, token_values))}
          : token_values \in QueryTokenValues(query_tokens)}

\* SearchService.search: the lists it may return, each with the number of
\* store queries made
SearchOutcomes(T, E, D, query, limit) ==
    LET query_tokens == AllTokens(query)
    IN  IF query_tokens = {} THEN {[result |-> << >>, calls |-> 0]}
        ELSE UNION {
               {LET top == Truncate(s, limit)
                    doc_ids == [i \in DOMAIN top |-> top[i].document_id]
                IN  IF doc_ids = << >> THEN [result |-> << >>, calls |-> 2]
                    ELSE [result |-> FetchDocuments(D, doc_ids), calls |-> 3]
                : s \in SortedResults(ScoredResults(T, E, D, token_values))}
               : token_values \in QueryTokenValues(query_tokens)}

\* scored_results, from the rows of the aggregate query
ScoredRows(rows, D) ==
    {[document_id |-> r.document_id, score |-> Score(r, DocTokenCount(D, r.document_id))]
     : r \in rows}

\* search up to its first store call: the query is tokenized and
\* results = await base_query.values(...)
SearchAggregate(query, limit) ==
    /\ srch = NoSearch
    /\ LET query_tokens == AllTokens(query)
       IN  IF query_tokens = {}
           THEN srch' = [query |-> query, limit |-> limit, result |-> << >>, calls |-> 0,
                         pc |-> "done", results |-> {}, doc_ids |-> << >>]
           ELSE \E token_values \in QueryTokenValues(query_tokens) :
                   srch' = [query |-> query, limit |-> limit, result |-> << >>, calls |-> 1,
                            pc |-> "counts",
                            results |-> Aggregate(tokens, entries, token_values),
                            doc_ids |-> << >>]
    /\ UNCHANGED <<docs, tokens, entries, last, call>>

\* documents = await NewsClassification.filter(id__in=doc_ids).values(...),
\* then the scores, the sort and the cut to limit
SearchCounts ==
    /\ srch # NoSearch
    /\ srch.pc = "counts"
    /\ \E s \in SortedResults(ScoredRows(srch.results, docs)) :
          LET top == Truncate(s, srch.limit)
              doc_ids == [i \in DOMAIN top |-> top[i].document_id]
          IN  srch' = [srch EXCEPT !.doc_ids = doc_ids,
                                   !.calls = 2,
                                   !.pc = IF doc_ids = << >> THEN "done" ELSE "fetch"]
    /\ UNCHANGED <<docs, tokens, entries, last, call>>

\* documents = await NewsClassification.filter(id__in=doc_ids) and the
\* list that is returned
SearchFetch ==
    /\ srch # NoSearch
    /\ srch.pc = "fetch"
    /\ srch' = [srch EXCEPT !.result = FetchDocuments(docs, srch.doc_ids),
                            !.calls = 3,
                            !.pc = "done"]
    /\ UNCHANGED <<docs, tokens, entries, last, call>>

\* search_news: results = await search_service.search(q)
Search(query, limit) ==
    /\ Quiet
    /\ \E o \in SearchOutcomes(tokens, entries, docs, query, limit) :
          srch' = [query |-> query, limit |-> limit, result |-> o.result, calls |-> o.calls]
    /\ last' = Done("search", 0)
    /\ UNCHANGED <<docs, tokens, entries, call>>

\* search_news: the response is returned to the client
SearchReturn ==
    /\ last.op = "search"
    /\ last' = Done("returned", 0)
    /\ srch' = NoSearch
    /\ UNCHANGED <<docs, tokens, entries, call>>

\* a row of news_classifications that was never indexed
NewDocument(text) == [review |-> text, token_count |-> 0]

\* the store as the seed script fills it (bulk_create, no indexing), the
\* index tables empty
Init ==
    /\ docs \in [DocIds -> {NewDocument(t) : t \in Reviews}]
    /\ tokens = {}
    /\ entries = EmptyBag
    /\ last = Seeded
    /\ srch = NoSearch
    /\ call = [p \in Callers |-> NoCall]

Next ==
    \/ \E d \in DocIds : IndexDocument(d)
    \/ \E d \in DocIds : RemoveDocumentFromIndex(d)
    \/ ReindexAll
    \/ ClearDocuments

Spec == Init /\ [][Next]_vars

\* one document with a long review
InitLong ==
    /\ docs \in [{1} -> {NewDocument(t) : t \in LongTexts}]
    /\ tokens = {}
    /\ entries = EmptyBag
    /\ last = Seeded
    /\ srch = NoSearch
    /\ call = [p \in Callers |-> NoCall]

SpecLong == InitLong /\ [][Next]_vars

\* the index operations and the searches
NextSearch ==
    \/ ReindexAll
    \/ \E d \in DocIds : RemoveDocumentFromIndex(d)
    \/ ClearDocuments
    \/ \E q \in Queries, l \in 0..MaxLimit : Search(q, l)
    \/ SearchReturn

\* two callers, the first indexes document 1, the second any document; the
\* index is empty or was rebuilt before
NextConcurrent ==
    \/ /\ \A p \in Callers : call[p].pc = "idle"
       /\ ReindexAll
    \/ StartIndex(1, 1)
    \/ \E d \in DocIds : StartIndex(2, d)
    \/ \E p \in Callers :
          \/ StepDelete(p)
          \/ StepFilter(p)
          \/ StepCreate(p)
          \/ StepRefilter(p)
          \/ StepInsert(p)
          \/ StepSave(p)

SpecConcurrent == Init /\ [][NextConcurrent]_vars

InitSearch ==
    /\ docs \in {d \in [DocIds -> {NewDocument(t) : t \in SearchReviews}] :
                    d[2].review \in PlainReviews}
    /\ tokens = {}
    /\ entries = EmptyBag
    /\ last = Seeded
    /\ srch = NoSearch
    /\ call = [p \in Callers |-> NoCall]

SpecSearch == InitSearch /\ [][NextSearch]_vars

\* one caller updates and indexes a document of an index that is empty or
\* was rebuilt; any store call of index_document may fail
NextFailure ==
    \/ /\ \A p \in Callers : call[p].pc = "idle"
       /\ ReindexAll
    \/ \E d \in DocIds, text \in Reviews : StartUpdate(1, d, text)
    \/ StepDelete(1)
    \/ StepFilter(1)
    \/ StepCreate(1)
    \/ StepRefilter(1)
    \/ StepInsert(1)
    \/ StepSave(1)
    \/ StepFail(1)

SpecFailure == Init /\ [][NextFailure]_vars

\* the index is built, then caller 1 rebuilds it while one search runs
NextRebuild ==
    \/ /\ \A p \in Callers : call[p].pc = "idle"
       /\ srch = NoSearch
       /\ ReindexAll
    \/ /\ last.op = "reindex"
       /\ ReindexClearTokens(1)
    \/ ReindexClearEntries(1)
    \/ ReindexList(1)
    \/ ReindexNext(1)
    \/ StepDelete(1)
    \/ StepFilter(1)
    \/ StepCreate(1)
    \/ StepRefilter(1)
    \/ StepInsert(1)
    \/ StepSave(1)
    \/ /\ last.op = "reindex"
       /\ \E q \in Queries : SearchAggregate(q, MaxLimit)
    \/ SearchCounts
    \/ SearchFetch

\* two documents of plain reviews, never indexed
InitRebuild ==
    /\ docs \in [DocIds -> {NewDocument(t) : t \in PlainReviews}]
    /\ tokens = {}
    /\ entries = EmptyBag
    /\ last = Seeded
    /\ srch = NoSearch
    /\ call = [p \in Callers |-> NoCall]

SpecRebuild == InitRebuild /\ [][NextRebuild]_vars

\* the index is built, then documents are deleted, or the store is cleared,
\* while one search runs
NextDelete ==
    \/ /\ \A p \in Callers : call[p].pc = "idle"
       /\ srch = NoSearch
       /\ ReindexAll
    \/ /\ last.op = "reindex"
       /\ \E p \in Callers, d \in DocIds : DeleteRemove(p, d)
    \/ \E p \in Callers : DeleteRow(p)
    \/ /\ last.op = "reindex"
       /\ ClearDocuments
    \/ /\ last.op \in {"reindex", "clear"}
       /\ \E q \in Queries, l \in 0..MaxLimit : SearchAggregate(q, l)
    \/ SearchCounts
    \/ SearchFetch

SpecDelete == InitRebuild /\ [][NextDelete]_vars

(***************************************************************************)
(* A tokenizer called on a text.                                           *)
(***************************************************************************)
\* PrefixTokenizer().tokenize(text): the list returned, as a bag of Tokens
\* (the list is built from the set tokens, its order is the set's)
PrefixTokenizerTokenize(p, text) ==
    /\ call[p].pc = "idle"
    /\ call' = [call EXCEPT ![p] = [pc |-> "tokenized", text |-> text,
                                    tokens |-> SetToBag(PrefixTokenize(text))]]
    /\ UNCHANGED <<docs, tokens, entries, last, srch>>

\* an empty store and an empty index, no call made
InitTokenize ==
    /\ docs = << >>
    /\ tokens = {}
    /\ entries = EmptyBag
    /\ last = Seeded
    /\ srch = NoSearch
    /\ call = [p \in Callers |-> NoCall]

NextTokenize == \E text \in TokenizerTexts : PrefixTokenizerTokenize(1, text)

SpecTokenize == InitTokenize /\ [][NextTokenize]_vars


(***************************************************************************)
(* Claims.                                                                 *)
(***************************************************************************)
\* the number of entries of document d with token value v
Postings(d, v) ==
    BagCardinality([e \in {x \in DOMAIN entries : x.document_id = d /\ x.token = v}
                    |-> entries[e]])

\* C1: for every document id and field there is at most one posting per
\* distinct token value, also when two tokenizers emit the same string.
\* (All entries are of the one field "review".)
C1_OnePostingPerTokenValue ==
    \A e \in DOMAIN entries : Postings(e.document_id, e.token) <= 1

\* C2: after index_document(d) completed, d.token_count is the number of
\* postings stored for d.id, and a document whose text yields no tokens has
\* no postings and token_count = 0.
C2_TokenCountIsPostingCount ==
    \A d \in DOMAIN docs :
        last.op = "index" /\ last.doc = d =>
            /\ docs[d].token_count = BagCardinality(EntriesFor(entries, d))
            /\ ExtractWords(docs[d].review) = {} =>
                   docs[d].token_count = 0 /\ EntriesFor(entries, d) = EmptyBag

\* C2 witness: document 1 was indexed and has more postings than distinct tokens
C2_Witness ==
    /\ 1 \in DOMAIN docs
    /\ last.op = "index" /\ last.doc = 1
    /\ docs[1].token_count = BagCardinality(EntriesFor(entries, 1))
    /\ docs[1].token_count > Cardinality(tokens)
    /\ tokens # {}

\* C10: every posting index_document creates has weight
\* 10 * tokenizerWeight * k, k the least integer with k * k >= len(value),
\* for the weight (20, 5, 1) of a tokenizer that emitted the value: the
\* word tokenizer for a word, the prefix tokenizer for a prefix of at least
\* 4 characters, the n-gram tokenizer for a 3-gram; every weight is a
\* positive integer.
C10_IsWeightOf(weight, value, tokenizerWeight) ==
    \E k \in 1..Len(value) :
        /\ k * k >= Len(value)
        /\ (k - 1) * (k - 1) < Len(value)
        /\ weight = 10 * tokenizerWeight * k

C10_PostingWeights ==
    \A d \in DOMAIN docs :
        last.op = "index" /\ last.doc = d =>
            LET words == ExtractWords(docs[d].review)
                mine == DOMAIN EntriesFor(entries, d)
            IN  /\ \A e \in mine :
                       /\ e.weight \in Nat \ {0}
                       /\ \/ e.token \in words /\ C10_IsWeightOf(e.weight, e.token, 20)
                          \/ /\ Len(e.token) >= 4
                             /\ \E w \in words : e.token = SubSeq(w, 1, Len(e.token))
                             /\ C10_IsWeightOf(e.weight, e.token, 5)
                          \/ /\ Len(e.token) = 3
                             /\ \E w \in words : \E i \in 1..(Len(w) - 2) :
                                    e.token = SubSeq(w, i, i + 2)
                             /\ C10_IsWeightOf(e.weight, e.token, 1)
                /\ \A w \in words :
                       \E e \in mine : e.token = w /\ C10_IsWeightOf(e.weight, w, 20)

\* C10 witness: a posting of a 5-character prefix, of weight 10 * 5 * 3
C10_Witness ==
    /\ last.op = "index"
    /\ \E e \in DOMAIN entries :
           Len(e.token) = 5 /\ e.weight = 150 /\ e.document_id = last.doc

\* C3: index_document(d) called twice in a row leaves the postings of d, its
\* token_count and the postings of every other document as the first call
\* left them.
C3_IndexingIdempotent ==
    [][(last'.op = "index" /\ last'.again) =>
           (entries' = entries /\ docs' = docs /\ tokens' = tokens)]_vars

\* C3 witness: a document with postings was indexed twice in a row, another
\* document has postings too
C3_Witness ==
    /\ last.op = "index" /\ last.again
    /\ \A d \in DocIds : EntriesFor(entries, d) # EmptyBag

\* C6: after reindex_all() every document of the store has the postings and
\* the token_count a fresh index_document call on it alone, on an empty
\* index, produces; no posting is left for an id that is not in the store;
\* the dictionary holds the tokens of the stored documents only.
C6_ReindexAllRebuilds ==
    last.op = "reindex" =>
        /\ \A d \in DOMAIN docs :
               LET fresh == IndexDocumentOn({}, EmptyBag, docs, d)
               IN  /\ EntriesFor(entries, d) = fresh.entries
                   /\ docs[d].token_count = fresh.docs[d].token_count
        /\ \A e \in DOMAIN entries : e.document_id \in DOMAIN docs
        /\ tokens = UNION {TokenValues(AllTokens(docs[d].review)) : d \in DOMAIN docs}

\* C6 witness: the rebuild indexed two documents that share a token
C6_Witness ==
    /\ last.op = "reindex"
    /\ DOMAIN docs = DocIds
    /\ \E e1, e2 \in DOMAIN entries :
           e1.document_id = 1 /\ e2.document_id = 2 /\ e1.token = e2.token


\* the documents with an entry whose token is a token of the query
Candidates(query) ==
    {e.document_id : e \in {x \in DOMAIN entries :
                              x.token \in TokenValues(AllTokens(query))}}

\* C7: after remove_document_from_index(id) no posting of that id exists,
\* the call leaves the dictionary, the document store and the postings of
\* the other documents unchanged, and no search returns a document that has
\* no posting.
C7_RemoveDocumentFromIndex ==
    [][/\ \A d \in DocIds :
              (last'.op = "remove" /\ last'.doc = d) =>
                  /\ EntriesFor(entries', d) = EmptyBag
                  /\ tokens' = tokens
                  /\ docs' = docs
                  /\ \A o \in DocIds \ {d} : EntriesFor(entries', o) = EntriesFor(entries, o)
       /\ last'.op = "search" =>
              \A i \in DOMAIN srch'.result :
                  EntriesFor(entries', srch'.result[i]) # EmptyBag]_vars

\* C7 witness: the entries of document 1 were removed, document 2 keeps its
\* entries, and a search for a word of document 1 returned only document 2
C7_Witness ==
    /\ last.op = "search"
    /\ DOMAIN docs = DocIds
    /\ EntriesFor(entries, 1) = EmptyBag
    /\ srch.query \in ExtractWords(docs[1].review)
    /\ srch.result = <<2>>

\* C8: search returns an empty list without a store query whenever the
\* query yields no tokens (empty, punctuation only, or only words of fewer
\* than 2 characters).
C8_NoWords(query) ==
    \A i \in 1..(Len(query) - 1) : ~(query[i] = "a" /\ query[i + 1] = "a")

C8_EmptyQuery ==
    (last.op = "search" /\ C8_NoWords(srch.query)) =>
        srch.result = << >> /\ srch.calls = 0

\* C8 witness: a search for two one-letter words over a non-empty index
C8_Witness ==
    /\ last.op = "search"
    /\ srch.query = <<"a", "!", "a">>
    /\ srch.calls = 0
    /\ entries # EmptyBag

\* the score of the claim for document d and a query, as a fraction:
\* baseScore * (1 + tokenDiversity) * (1 + avgWeight) / max(tokenCount, 1)
\* over the postings of d whose token is a token of the query, a missing
\* tokenCount counting as 1
C9_Score(d, query) ==
    LET P == [e \in {x \in DOMAIN entries :
                       /\ x.document_id = d
                       /\ x.token \in TokenValues(AllTokens(query))} |-> entries[e]]
        baseScore == SumWeight(P)
        tokenDiversity == Cardinality({e.token : e \in DOMAIN P})
        n == BagCardinality(P)
        tokenCount == IF d \in DOMAIN docs THEN docs[d].token_count ELSE 1
    IN  [num |-> baseScore * (1 + tokenDiversity) * (n + baseScore),
         den |-> n * (IF tokenCount > 1 THEN tokenCount ELSE 1)]

\* C9: search(query, limit) returns at most limit documents, each with a
\* posting of a token of the query, in order of non-increasing score, and no
\* candidate that was left out has a higher score than a returned one.
C9_RankedResult ==
    last.op = "search" =>
        LET R == srch.result
            q == srch.query
            returned == {R[i] : i \in DOMAIN R}
        IN  /\ Len(R) <= srch.limit
            /\ returned \subseteq Candidates(q)
            /\ \A i, j \in DOMAIN R :
                   i < j => R[i] # R[j] /\ ScoreGE(C9_Score(R[i], q), C9_Score(R[j], q))
            /\ \A c \in Candidates(q) \ returned :
                   \A d \in returned : ScoreGE(C9_Score(d, q), C9_Score(c, q))

\* C9 witness: two documents match, of different scores, and a search with
\* limit 1 returned the one of the higher score
C9_Witness ==
    /\ last.op = "search"
    /\ srch.limit = 1
    /\ Len(srch.result) = 1
    /\ \E c \in Candidates(srch.query) :
           /\ c # srch.result[1]
           /\ ~ScoreGE(C9_Score(c, srch.query), C9_Score(srch.result[1], srch.query))

\* the postings a single index_document call on document d produces
SingleCall(d) == IndexDocumentOn({}, EmptyBag, docs, d).entries

\* both concurrent calls have returned or raised
BothEnded == \A p \in Callers : call[p].pc \in {"done", "failed"}

\* C4: two concurrent index_document calls on one document id can end with
\* duplicate postings, the stored postings differing from those of a single
\* call and from token_count.  Every end state of two such calls holds the
\* postings of a single call once or twice, and token_count is the count of
\* a single call.
C4_SameDocumentOutcomes ==
    (BothEnded /\ call[1].document.id = call[2].document.id) =>
        LET d == call[1].document.id
            mine == EntriesFor(entries, d)
        IN  /\ mine = SingleCall(d) \/ mine = SingleCall(d) (+) SingleCall(d)
            /\ (\E p \in Callers : call[p].pc = "done") =>
                   docs[d].token_count = BagCardinality(SingleCall(d))

\* C4 witness: both calls on document 1 completed and left every posting
\* twice, token_count half the number of postings
C4_Witness ==
    /\ \A p \in Callers : call[p].pc = "done" /\ call[p].document.id = 1
    /\ SingleCall(1) # EmptyBag
    /\ EntriesFor(entries, 1) = SingleCall(1) (+) SingleCall(1)
    /\ docs[1].token_count # BagCardinality(EntriesFor(entries, 1))

\* C5: index_document calls on two different document ids, interleaved in
\* any order, both complete without error and leave each document with the
\* postings and the token_count of a single call.
C5_DifferentDocumentsIndependent ==
    (BothEnded /\ call[1].document.id # call[2].document.id) =>
        /\ \A p \in Callers : call[p].pc = "done"
        /\ \A d \in DocIds :
               /\ EntriesFor(entries, d) = SingleCall(d)
               /\ docs[d].token_count = BagCardinality(SingleCall(d))

\* the normalized words of a text: the maximal runs of characters of
\* [a-z0-9] of the text transliterated and in lower case
C11_Words(text) ==
    LET n == [i \in 1..Len(text) |-> Lower(Unidecode(text[i]))]
        alnum(i) == n[i] \in {"a", "b", "e"}
    IN  {SubSeq(n, i, j) : i \in 1..Len(n), j \in 1..Len(n)} \cap
        {SubSeq(n, ij[1], ij[2]) :
           ij \in {x \in (1..Len(n)) \X (1..Len(n)) :
                     /\ x[1] <= x[2]
                     /\ \A k \in x[1]..x[2] : alnum(k)
                     /\ x[1] = 1 \/ ~alnum(x[1] - 1)
                     /\ x[2] = Len(n) \/ ~alnum(x[2] + 1)}}

\* C11: PrefixTokenizer.tokenize(text) returns exactly the strings w[0..i]
\* for every normalized word w of the text with len(w) >= 4 and every i in
\* 4..len(w), each once and each with the weight 5 of the tokenizer; words
\* shorter than 4 contribute nothing.
C11_PrefixTokens ==
    \A p \in Callers :
        call[p].pc = "tokenized" =>
            LET out == call[p].tokens
                expected == UNION {{SubSeq(w, 1, i) : i \in 4..Len(w)}
                                   : w \in C11_Words(call[p].text)}
            IN  /\ DOMAIN out = {[value |-> v, weight |-> 5] : v \in expected}
                /\ \A t \in DOMAIN out : out[t] = 1

\* C11 witness: the text "aaaaB!aaaa", a word of 5 and a word of 4 characters
\* that is a prefix of it, gave the two tokens aaaa and aaaab
C11_Witness ==
    /\ call[1].pc = "tokenized"
    /\ call[1].text = <<"a", "a", "a", "a", "B", "!", "a", "a", "a", "a">>
    /\ DOMAIN call[1].tokens = {[value |-> <<"a", "a", "a", "a">>, weight |-> 5],
                                [value |-> <<"a", "a", "a", "a", "b">>, weight |-> 5]}
    /\ BagCardinality(call[1].tokens) = 2

\* C12: when a store call of index_document fails after the postings of the
\* document were deleted and before the new ones are inserted, the call ends
\* with the error, nothing is cleaned up (the failing step writes nothing),
\* the call is not retried, the document has no postings and its
\* token_count is the one it had before the call.
C12_FailureBetweenDeleteAndInsert ==
    [][\A p \in Callers :
          /\ (call[p].pc \in {"filter", "create", "refilter", "insert"}
                  /\ call'[p].pc = "failed") =>
                 LET d == call[p].document.id
                 IN  /\ EntriesFor(entries', d) = EmptyBag
                     /\ docs'[d].token_count = call[p].document.token_count
                     /\ entries' = entries
                     /\ tokens' = tokens
          /\ call[p].pc = "failed" => call'[p] = call[p]]_vars

\* C12 witness: the call on a document that had postings failed, the
\* document has no postings, its token_count is the old number of postings
\* and the other document keeps its postings
C12_Witness ==
    /\ call[1].pc = "failed"
    /\ last.op = "reindex"
    /\ EntriesFor(entries, call[1].document.id) = EmptyBag
    /\ docs[call[1].document.id].token_count = call[1].document.token_count
    /\ docs[call[1].document.id].token_count > 0
    /\ call[1].new_token_values # {}
    /\ \E o \in DocIds \ {call[1].document.id} : EntriesFor(entries, o) # EmptyBag

\* the documents a search for the query returns on the index of the stored
\* documents, as it is before a rebuild starts and after it has finished
C13_FullCandidates(query) ==
    {e.document_id : e \in {x \in DOMAIN IndexEach({}, EmptyBag, docs, DOMAIN docs).entries :
                              x.token \in TokenValues(AllTokens(query))}}

\* reindex_all of caller p has made its first store call and not its last
C13_Rebuilding(p) ==
    /\ call[p].pc # "idle"
    /\ ~(call[p].pc = "done" /\ call[p].todo = {})

\* C13: a search that runs while reindex_all() is in progress can see an
\* empty or partial index and return fewer documents than before the rebuild
\* and after it, the document store unchanged.  The rows a search reads are
\* rows of documents the full index gives for the query, all of them when no
\* rebuild is in progress, and the search returns the documents it read.
C13_SearchDuringRebuild ==
    [][/\ (srch = NoSearch /\ srch' # NoSearch) =>
              LET seen == {r.document_id : r \in srch'.results}
              IN  /\ seen \subseteq C13_FullCandidates(srch'.query)
                  /\ ~C13_Rebuilding(1) => seen = C13_FullCandidates(srch'.query)
       /\ (srch # NoSearch /\ srch.pc # "done" /\ srch'.pc = "done") =>
              {srch'.result[i] : i \in DOMAIN srch'.result}
                  = {r.document_id : r \in srch'.results}]_vars

\* C13 witness: the rebuild is in progress and a search has returned one
\* document for a query that matches both documents of the store
C13_Witness ==
    /\ srch # NoSearch
    /\ srch.pc = "done"
    /\ call[1].pc # "idle"
    /\ C13_Rebuilding(1)
    /\ Len(srch.result) = 1
    /\ C13_FullCandidates(srch.query) = DocIds

\* C14: a candidate that has matching postings and is absent from the
\* document store at the final fetch is left out of the result without an
\* error: the doc_ids of the search are in order of non-increasing score,
\* the fetch ends the search with a list of documents that are in the
\* store, every doc_id that is in the store is in it, and the documents
\* come in the order of doc_ids.
C14_MissingDocumentDropped ==
    [][/\ (srch # NoSearch /\ srch.pc = "counts" /\ srch'.pc # "counts") =>
              LET ids == srch'.doc_ids
                  row(d) == CHOOSE r \in srch.results : r.document_id = d
                  score(d) == Score(row(d), DocTokenCount(docs, d))
              IN  \A i, j \in DOMAIN ids : i < j => ScoreGE(score(ids[i]), score(ids[j]))
       /\ (srch # NoSearch /\ srch.pc = "fetch" /\ srch' # srch) =>
              LET ids == srch.doc_ids
                  R == srch'.result
              IN  /\ srch'.pc = "done"
                  /\ \A i \in DOMAIN R : R[i] \in DOMAIN docs
                  /\ \A i \in DOMAIN ids : ids[i] \in DOMAIN docs => \E j \in DOMAIN R : R[j] = ids[i]
                  /\ \A i, j \in DOMAIN R :
                         i < j => \E a, b \in DOMAIN ids : a < b /\ ids[a] = R[i] /\ ids[b] = R[j]
                  /\ Len(R) <= Len(ids)]_vars

\* C14 witness: the search ranked two documents, one of them was deleted
\* (postings and row) before the final fetch, and the result is the other
C14_Witness ==
    /\ srch # NoSearch
    /\ srch.pc = "done"
    /\ Len(srch.doc_ids) = 2
    /\ Len(srch.result) = 1
    /\ \E i \in DOMAIN srch.doc_ids :
           /\ srch.doc_ids[i] \notin DOMAIN docs
           /\ srch.doc_ids[i] # srch.result[1]
           /\ EntriesFor(entries, srch.doc_ids[i]) = EmptyBag
    /\ srch.result[1] \in DOMAIN docs
=============================================================================
